---- MODULE Spec2Model ----
(***************************************************************************)
(* Model of the mind-map document generation engine of mindmap-bot:        *)
(* the tree model (models.py), the tree builder and generation facade      *)
(* (mindmap_service.py), the generic-JSON, spreadsheet, FreeMind and OPML  *)
(* serializers (generators/*.py) and the radial layout and canvas sizing   *)
(* of the image renderer (image_generator.py), and the message handler     *)
(* that delivers the facade's buffer (bot.py).                             *)
(*                                                                         *)
(* Python values: a str is a TLA+ string, None is the value None below,    *)
(* a dict is a function on its keys (so a missing key is a key outside     *)
(* DOMAIN), a list is a sequence.  Floats are modelled in exact rational   *)
(* arithmetic for angles (in units of pi) and in fixed point (1/FP) for    *)
(* cos, sin and pixel coordinates.                                         *)
(***************************************************************************)
EXTENDS Integers, Sequences, FiniteSets, TLC

VARIABLES structure,  \* the nested record the AI-dispatch step supplies
          tree,       \* the Node tree built from it for this request, or NoTree
          out,        \* the call made on the engine and what it returned
          row_num     \* ExcelGenerator.row_num of the process-wide instance

vars == <<structure, tree, out, row_num>>

(***************************************************************************)
(* Bounds of the model.                                                    *)
(***************************************************************************)
\* The largest input record, in nodes.
MaxNodes == 4

\* The largest position map handed to the size computation on its own.
MaxPoints == 2

\* The most calls made in a row on the spreadsheet serializer instance.
MaxCalls == 2

\* The deepest chain of nodes handed to an invocation that runs concurrently
\* with another.
MaxChain == 3

\* The largest tree, in nodes, whose shape alone matters (all names alike).
MaxShapeNodes == 6

\* The most font requests made on one renderer instance.
MaxRequests == 2

\* Python's None (outside every string alphabet used here).
None == "<None>"

\* The records of one node the dispatch step may supply (children apart):
\* a name alone, a name and a note, a note without the required name, and a
\* name with an empty note.
RecordChoices ==
    { [name |-> "A"], [name |-> "B", note |-> "n"], [note |-> "n"],
      [name |-> "A", note |-> ""] }

(***************************************************************************)
(* Python dict helpers.                                                    *)
(***************************************************************************)
\* dict.get(key, default)
Get(d, key, default) == IF key \in DOMAIN d THEN d[key] ELSE default

\* Truthiness of an Optional[str]: None and "" are falsy.
Truthy(s) == s # None /\ s # ""

\* The positions (index paths, 1-based) of the records nested in a record.
RECURSIVE RecordPaths(_)
RecordPaths(rec) ==
    LET kids == Get(rec, "children", <<>>)
    IN  {<<>>} \cup UNION { { <<i>> \o p : p \in RecordPaths(kids[i]) } :
                            i \in 1..Len(kids) }

\* The record nested at a path.
RECURSIVE RecordAt(_, _)
RecordAt(rec, path) ==
    IF path = <<>> THEN rec ELSE RecordAt(rec.children[Head(path)], Tail(path))

\* The record with `child` appended to the children of the record at `path`.
RECURSIVE InsertAt(_, _, _)
InsertAt(rec, path, child) ==
    IF path = <<>>
    THEN IF "children" \in DOMAIN rec
         THEN [rec EXCEPT !.children = Append(@, child)]
         ELSE rec @@ [children |-> <<child>>]
    ELSE [rec EXCEPT !.children[Head(path)] = InsertAt(@, Tail(path), child)]

(***************************************************************************)
(* Tree model (models.py).                                                 *)
(***************************************************************************)
DefaultColors == [name |-> "#000000", background |-> "#ffffff", branch |-> "#1f77b4"]

DefaultFont == [size |-> 14, style |-> "normal", weight |-> "normal"]

\* uuid4(): an opaque token, unique to (the build that made it, the node's place).
NewId(run, path) == [run |-> run, at |-> path]

\* MindMapNode(name=..., note=...): every other field takes its default.
MindMapNode(id, name, note) ==
    [id |-> id, name |-> name, note |-> note, colors |-> DefaultColors,
     font |-> DefaultFont, children |-> <<>>]

add_child_in_front(node, child) == [node EXCEPT !.children = <<child>> \o @]

\* MindMapNode.add_child
add_child(node, child) == [node EXCEPT !.children = Append(@, child)]

\* The tree-model node at an index path, and the nodes' paths.
RECURSIVE NodeAt(_, _)
NodeAt(node, path) ==
    IF path = <<>> THEN node ELSE NodeAt(node.children[Head(path)], Tail(path))

RECURSIVE NodePaths(_)
NodePaths(node) ==
    {<<>>} \cup UNION { { <<i>> \o p : p \in NodePaths(node.children[i]) } :
                        i \in 1..Len(node.children) }

\* The prefix of a path of length k.
Prefix(path, k) == SubSeq(path, 1, k)

(***************************************************************************)
(* Tree builder (mindmap_service.py).                                      *)
(***************************************************************************)
RECURSIVE build_simple_node_tree(_, _, _)
RECURSIVE BuildChildren(_, _, _, _, _)

\* for child_data in children_data: node.add_child(build(child_data))
BuildChildren(node, children_data, i, run, path) ==
    IF i > Len(children_data) THEN node
    ELSE BuildChildren(
            add_child(node, build_simple_node_tree(children_data[i], run, Append(path, i))),
            children_data, i + 1, run, path)

build_with_placeholder_name(rec, run, path) ==
    BuildChildren(MindMapNode(NewId(run, path), Get(rec, "name", "Untitled"),
                              Get(rec, "note", None)),
                  Get(rec, "children", <<>>), 1, run, path)

build_simple_node_tree(rec, run, path) ==
    BuildChildren(MindMapNode(NewId(run, path), Get(rec, "name", ""), Get(rec, "note", None)),
                  Get(rec, "children", <<>>), 1, run, path)

(***************************************************************************)
(* Themes (models.py, color_schemes.py).                                   *)
(***************************************************************************)
\* MindMapTheme built from COLOR_SCHEMES["professional"].
ProfessionalTheme ==
    [colors |-> <<"#2563eb", "#dc2626", "#16a34a", "#ea580c", "#9333ea", "#0891b2">>,
     background |-> "#ffffff", text |-> "#000000"]

\* theme=None, as a value that compares with a MindMapTheme.
NoTheme == [none |-> TRUE]

\* What a caller may pass as `theme`: the facade passes None.
ThemeChoices == {NoTheme, ProfessionalTheme}

Titles == {"Mindmap"}

\* A call that ended by raising, and one that returned a value.
Raised(error) == [status |-> "raised", error |-> error]
Returned(value) == [status |-> "ok", value |-> value]

(***************************************************************************)
(* Generic JSON serializer (models.py to_dict, json_generator.py) and the  *)
(* JSON text it writes: json.dumps maps a dict to an object, a list to an  *)
(* array, a str to a string, an int to a number and None to null;          *)
(* json.loads maps them back.                                              *)
(***************************************************************************)
RECURSIVE to_dict(_)

to_dict_without_note(node) ==
    [id |-> node.id, name |-> node.name, note |-> None, colors |-> node.colors,
     font |-> node.font,
     children |-> [i \in 1..Len(node.children) |-> to_dict(node.children[i])]]

\* MindMapNode.to_dict
to_dict(node) ==
    [id |-> node.id, name |-> node.name, note |-> node.note, colors |-> node.colors,
     font |-> node.font,
     children |-> [i \in 1..Len(node.children) |-> to_dict(node.children[i])]]

JNull == [t |-> "null"]
JString(s) == [t |-> "string", v |-> s]
JNumber(n) == [t |-> "number", v |-> n]
JArray(seq) == [t |-> "array", v |-> seq]
JObject(members) == [t |-> "object", v |-> members]

\* json.dumps of an Optional[str] and of a dict of strings.
DumpsOptStr(s) == IF s = None THEN JNull ELSE JString(s)
DumpsStrDict(d) == JObject([k \in DOMAIN d |-> JString(d[k])])
DumpsStrList(l) == JArray([i \in 1..Len(l) |-> JString(l[i])])
DumpsFont(f) ==
    JObject([k \in DOMAIN f |-> IF k = "size" THEN JNumber(f[k]) ELSE JString(f[k])])

\* json.dumps of the dict to_dict returns.
RECURSIVE DumpsNode(_)
DumpsNode(d) ==
    JObject([id |-> JString(d.id), name |-> JString(d.name), note |-> DumpsOptStr(d.note),
             colors |-> DumpsStrDict(d.colors), font |-> DumpsFont(d.font),
             children |-> JArray([i \in 1..Len(d.children) |-> DumpsNode(d.children[i])])])

\* json.loads of a scalar, and of the object of one node: a dict again.
LoadsScalar(j) == IF j.t = "null" THEN None ELSE j.v
RECURSIVE LoadsNode(_)
LoadsNode(j) ==
    [k \in DOMAIN j.v |->
        IF k = "children"
        THEN [i \in 1..Len(j.v[k].v) |-> LoadsNode(j.v[k].v[i])]
        ELSE IF k \in {"colors", "font"}
        THEN [c \in DOMAIN j.v[k].v |-> LoadsScalar(j.v[k].v[c])]
        ELSE LoadsScalar(j.v[k])]

\* get_vietnam_time().isoformat(): a timestamp the model does not look into.
Now == "<now>"

\* JSONMindMapGenerator.generate: theme.colors raises AttributeError on None;
\* otherwise the buffer holds the JSON text of mindmap_data.
JSONMindMapGenerator_generate(root, title, theme) ==
    IF theme = NoTheme THEN Raised("AttributeError")
    ELSE Returned(
           JObject([meta |-> JObject([name |-> JString(title),
                                      author |-> JString("Mindmap Bot"),
                                      created |-> JString(Now),
                                      version |-> JString("1.0")]),
                    theme |-> JObject([name |-> JString("custom"),
                                       colorScheme |-> DumpsStrList(theme.colors),
                                       background |-> JString(theme.background),
                                       text |-> JString(theme.text)]),
                    root |-> DumpsNode(to_dict(root))]))

(***************************************************************************)
(* Spreadsheet serializer (excel_generator.py).  A worksheet is a function *)
(* from row numbers to the four cells of the row (and the Level cell's     *)
(* fill); the serializer instance carries row_num between calls.           *)
(***************************************************************************)
\* ExcelGenerator.LEVEL_COLORS.get(level, "FFFFFF")
LEVEL_COLORS(level) ==
    CASE level = 0 -> "4472C4"
      [] level = 1 -> "70AD47"
      [] level = 2 -> "FFC000"
      [] level = 3 -> "5B9BD5"
      [] level = 4 -> "A5A5A5"
      [] OTHER -> "FFFFFF"

\* "  " * level
RECURSIVE Indent(_)
Indent(level) == IF level <= 0 THEN "" ELSE "  " \o Indent(level - 1)

\* f"{path} > {child.name}"
child_path_without_separator(path, name) == path \o name

child_path(path, name) == path \o " > " \o name

\* note_cell.value = node.note if node.note else ""
note_cell(note) == IF Truthy(note) THEN note ELSE ""

\* ws.cell(row, col).value = ...: writing a row replaces what the row held.
WriteRow(ws, row, cells) == (row :> cells) @@ ws

RECURSIVE build_excel_tree(_, _, _, _)
RECURSIVE ExcelChildren(_, _, _, _, _)

\* for child in node.children: self._build_excel_tree(ws, child, level + 1, child_path)
ExcelChildren(st, node, i, level, path) ==
    IF i > Len(node.children) THEN st
    ELSE ExcelChildren(
            build_excel_tree(st, node.children[i], level + 1,
                             child_path(path, node.children[i].name)),
            node, i + 1, level, path)

\* The Level cell's value.
level_cell(level) == level

\* The four cells _build_excel_tree writes for a node, and the Level cell's fill.
RowCells(node, level, path) ==
    [Level |-> level_cell(level), fill |-> LEVEL_COLORS(level),
     NodeName |-> Indent(level) \o node.name,
     Note |-> note_cell(node.note), Path |-> path]

\* ExcelGenerator._build_excel_tree; st is (the worksheet, self.row_num).
build_excel_tree(st, node, level, path) ==
    ExcelChildren(
        [ws |-> WriteRow(st.ws, st.row_num, RowCells(node, level, path)),
         row_num |-> st.row_num + 1],
        node, 1, level, path)

row_counter_kept(previous) == previous

\* self.row_num = 2  # Start after header
row_counter_reset(previous) == 2

\* The workbook saved to the buffer: the metadata sheet and the main sheet.
Workbook(title, ws) ==
    [info |-> [title |-> title, format |-> "Excel (.xlsx)"],
     header |-> <<"Level", "Node Name", "Note", "Path">>,
     rows |-> ws, freeze_panes |-> "A2"]

\* ExcelGenerator.generate on an instance whose counter is self_row_num: the
\* header row, the counter reset, the rows of the tree, and the workbook saved
\* to the buffer.  The theme is not read.
ExcelGenerator_generate(self_row_num, root, title, theme) ==
    LET st == build_excel_tree([ws |-> <<>>, row_num |-> row_counter_reset(self_row_num)],
                               root, 0, root.name)
    IN  [result |-> Returned(Workbook(title, st.ws)), row_num |-> st.row_num]

(***************************************************************************)
(* XML serializers (freemind_generator.py, opml_generator.py).  A document *)
(* is the element tree that the pretty-printed text denotes.               *)
(***************************************************************************)
\* xml.etree Element(tag, **attrib) with its sub-elements.
Element(tag, attrib, text, children) ==
    [tag |-> tag, attrib |-> attrib, text |-> text, children |-> children]

\* The <richcontent TYPE="NOTE"><html><body><p>note</p></body></html></richcontent>.
RichContent(note) ==
    Element("richcontent", [TYPE |-> "NOTE"], "",
        << Element("html", <<>>, "",
             << Element("body", <<>>, "",
                  << Element("p", <<>>, note, <<>>) >>) >>) >>)

note_elements_always(note) == << RichContent(note) >>

\* if node.note: the rich-content element of a node, if it gets one.
note_elements(note) == IF Truthy(note) THEN << RichContent(note) >> ELSE <<>>

child_position_alternating(is_root, idx, position) ==
    IF idx % 2 = 0 THEN "right" ELSE "left"

\* The position handed to the idx-th child (0-based) of a node.
child_position(is_root, idx, position) ==
    IF is_root THEN (IF idx % 2 = 0 THEN "right" ELSE "left") ELSE position

\* The attributes of the node element.
NodeAttribs(node, is_root, position) ==
    LET bg == Get(node.colors, "background", "#ffffff")
    IN  [TEXT |-> node.name, COLOR |-> Get(node.colors, "name", "#000000")]
        @@ (IF bg # "" /\ bg # "#ffffff" THEN [BACKGROUND_COLOR |-> bg] ELSE <<>>)
        @@ (IF ~is_root THEN [POSITION |-> position] ELSE [STYLE |-> "bubble"])

EdgeAttribs(node, is_root) ==
    [COLOR |-> Get(node.colors, "branch", "#1f77b4")]
    @@ (IF is_root THEN [WIDTH |-> "2"] ELSE <<>>)

FontAttribs(node) ==
    [NAME |-> "Arial", SIZE |-> ToString(Get(node.font, "size", 14))]
    @@ (IF Get(node.font, "weight", None) = "bold" THEN [BOLD |-> "true"] ELSE <<>>)
    @@ (IF Get(node.font, "style", None) = "italic" THEN [ITALIC |-> "true"] ELSE <<>>)

\* FreeMindGenerator._build_xml_node: the element it adds to parent_elem.
RECURSIVE build_xml_node(_, _, _)
build_xml_node(node, is_root, position) ==
    Element("node", NodeAttribs(node, is_root, position), "",
        << Element("edge", EdgeAttribs(node, is_root), "", <<>>),
           Element("font", FontAttribs(node), "", <<>>) >>
        \o note_elements(node.note)
        \o [i \in 1..Len(node.children) |->
               build_xml_node(node.children[i], FALSE,
                              child_position(is_root, i - 1, position))])

\* FreeMindGenerator.generate
FreeMindGenerator_generate(root, title, theme) ==
    Returned(Element("map", [version |-> "0.9.0"], "",
                     << build_xml_node(root, TRUE, "right") >>))

\* The attributes of an outline element.
outline_attribs(node) ==
    [text |-> node.name] @@ (IF Truthy(node.note) THEN [_note |-> node.note] ELSE <<>>)

\* OPMLGenerator._build_outline: the element it adds to parent_elem.
RECURSIVE build_outline(_)

build_outline_beside_parent(node) ==
    Element("outline", outline_attribs(node), "",
        IF node.children = <<>> THEN <<>>
        ELSE << Element("outline", outline_attribs(node.children[1]), "", <<>>) >>
             \o [i \in 1..Len(node.children[1].children) |->
                    build_outline(node.children[1].children[i])]
             \o [i \in 1..(Len(node.children) - 1) |-> build_outline(node.children[i + 1])])

build_outline(node) ==
    Element("outline", outline_attribs(node), "",
        [i \in 1..Len(node.children) |-> build_outline(node.children[i])])

\* OPMLGenerator.generate
OPMLGenerator_generate(root, title, theme) ==
    Returned(Element("opml", [version |-> "2.0"], "",
        << Element("head", <<>>, "",
             << Element("title", <<>>, title, <<>>),
                Element("dateCreated", <<>>, Now, <<>>),
                Element("ownerName", <<>>, "MILO Chatbot", <<>>) >>),
           Element("body", <<>>, "", << build_outline(root) >>) >>))

(***************************************************************************)
(* Arithmetic of the layout.  Angles are exact rationals in units of pi    *)
(* (so 2*math.pi is 2 and math.pi / 2 is 1/2); math.cos and math.sin are   *)
(* computed in fixed point, FP units to 1, after an exact reduction of the *)
(* angle to [0, pi/4]; pixel coordinates are in units of 1/FP pixel.       *)
(***************************************************************************)
FP == 10000

\* pi in units of 1/FP.
PiFP == 31416

RECURSIVE GCD(_, _)
GCD(a, b) == IF b = 0 THEN a ELSE GCD(b, a % b)

Abs(a) == IF a < 0 THEN -a ELSE a

\* The rational n/d in lowest terms, d > 0.
Rat(n, d) ==
    LET g == GCD(Abs(n), Abs(d))
        sgn == IF d < 0 THEN -1 ELSE 1
    IN  [n |-> sgn * (n \div g), d |-> sgn * (d \div g)]

RAdd(a, b) == Rat(a.n * b.d + b.n * a.d, a.d * b.d)
RSub(a, b) == Rat(a.n * b.d - b.n * a.d, a.d * b.d)
RMul(a, b) == Rat(a.n * b.n, a.d * b.d)
RDivInt(a, k) == Rat(a.n, a.d * k)
RLess(a, b) == a.n * b.d < b.n * a.d
RMin(a, b) == IF RLess(b, a) THEN b ELSE a

\* a * b in fixed point.
MulFP(a, b) == (a * b) \div FP

\* cos and sin of x (in 1/FP radians, 0 <= x <= pi/4) by their Taylor series.
CosSeries(x) ==
    LET x2 == MulFP(x, x)
        x4 == MulFP(x2, x2)
        x6 == MulFP(x4, x2)
    IN  FP - (x2 \div 2) + (x4 \div 24) - (x6 \div 720)

SinSeries(x) ==
    LET x2 == MulFP(x, x)
        x3 == MulFP(x2, x)
        x5 == MulFP(x3, x2)
        x7 == MulFP(x5, x2)
    IN  x - (x3 \div 6) + (x5 \div 120) - (x7 \div 5040)

\* An angle (units of pi) in 1/FP radians, and reduced to [0, 2).
Radians(a) == (a.n * PiFP) \div a.d
Mod2(a) == Rat(a.n % (2 * a.d), a.d)

\* cos and sin of an angle in [0, 1/2] (units of pi).
CosQ(a) == IF RLess(Rat(1, 4), a) THEN SinSeries(Radians(RSub(Rat(1, 2), a)))
           ELSE CosSeries(Radians(a))
SinQ(a) == IF RLess(Rat(1, 4), a) THEN CosSeries(Radians(RSub(Rat(1, 2), a)))
           ELSE SinSeries(Radians(a))

\* cos and sin of an angle in [0, 1].
CosH(a) == IF RLess(Rat(1, 2), a) THEN -CosQ(RSub(Rat(1, 1), a)) ELSE CosQ(a)
SinH(a) == IF RLess(Rat(1, 2), a) THEN SinQ(RSub(Rat(1, 1), a)) ELSE SinQ(a)

\* math.cos(angle), math.sin(angle), in units of 1/FP.
Cos(angle) ==
    LET a == Mod2(angle)
    IN  IF RLess(Rat(1, 1), a) THEN CosH(RSub(Rat(2, 1), a)) ELSE CosH(a)
Sin(angle) ==
    LET a == Mod2(angle)
    IN  IF RLess(Rat(1, 1), a) THEN -SinH(RSub(a, Rat(1, 1))) ELSE SinH(a)

(***************************************************************************)
(* Radial layout and canvas size (image_generator.py).  A node object      *)
(* (Python's id(node)) is named by its path in the tree.  Beside (x, y),   *)
(* the layout keeps for every node the locals of the call that placed it   *)
(* (angle, level) and the sector handed to the call that lays out its      *)
(* children.                                                               *)
(***************************************************************************)
MIN_WIDTH == 1200
MIN_HEIGHT == 800
PADDING == 100
LEVEL_SPACING == 180

angle_at_slice_start(start_angle, angle_step, i) == RAdd(start_angle, RMul(angle_step, Rat(i, 1)))

\* angle = start_angle + angle_step * (i + 0.5)
child_angle(start_angle, angle_step, i) ==
    RAdd(start_angle, RMul(angle_step, Rat(2 * i + 1, 2)))

child_angle_range_of_whole_slice(angle_step) == angle_step

\* child_angle_range = min(angle_step * 0.8, math.pi / 2)
child_angle_range(angle_step) == RMin(RMul(angle_step, Rat(4, 5)), Rat(1, 2))

level_radius_constant(level) == LEVEL_SPACING

\* radius = self.LEVEL_SPACING * level
level_radius(level) == LEVEL_SPACING * level

NoSector == [none |-> TRUE]

child_id_of_first(path, i) == Append(path, 1)

\* id(child) for the i-th child (0-based) of the node at a path.
child_id(path, i) == Append(path, i + 1)

\* positions[key] = ...: how many times the key has been assigned so far.
Assignments(positions, key) ==
    IF key \in DOMAIN positions THEN positions[key].writes + 1 ELSE 1

RECURSIVE layout_children(_, _, _, _, _, _, _, _)
RECURSIVE LayoutLoop(_, _, _, _, _, _, _, _, _)

\* The body of `for i, child in enumerate(children)` from index i (0-based) on.
LayoutLoop(positions, parent, path, parent_x, parent_y, start_angle, end_angle, level, i) ==
    LET children == parent.children
        n == Len(children)
        angle_step == RDivInt(RSub(end_angle, start_angle), IF n > 1 THEN n ELSE 1)
        radius == level_radius(level)
    IN  IF i >= n THEN positions
        ELSE LET child == children[i + 1]
                 cpath == child_id(path, i)
                 angle == child_angle(start_angle, angle_step, i)
                 x == parent_x + radius * Cos(angle)
                 y == parent_y + radius * Sin(angle)
                 range == child_angle_range(angle_step)
                 child_start == RSub(angle, RDivInt(range, 2))
                 child_end == RAdd(angle, RDivInt(range, 2))
                 placed == (cpath :> [x |-> x, y |-> y, angle |-> angle, level |-> level,
                                      writes |-> Assignments(positions, cpath),
                                      sector |-> IF Len(child.children) > 0
                                                 THEN [start |-> child_start, end |-> child_end]
                                                 ELSE NoSector])
                           @@ positions
                 below == IF Len(child.children) > 0
                          THEN layout_children(placed, child, cpath, x, y,
                                               child_start, child_end, level + 1)
                          ELSE placed
             IN  LayoutLoop(below, parent, path, parent_x, parent_y,
                            start_angle, end_angle, level, i + 1)

\* ImageMindMapGenerator._layout_children, for the children of `parent`.
layout_children(positions, parent, path, parent_x, parent_y, start_angle, end_angle, level) ==
    IF Len(parent.children) = 0 THEN positions
    ELSE LayoutLoop(positions, parent, path, parent_x, parent_y,
                    start_angle, end_angle, level, 0)

\* ImageMindMapGenerator._calculate_layout
calculate_layout(root) ==
    LET center_x == (MIN_WIDTH \div 2) * FP
        center_y == (MIN_HEIGHT \div 2) * FP
        positions == (<<>> :> [x |-> center_x, y |-> center_y, angle |-> Rat(0, 1),
                               level |-> 0, writes |-> 1,
                               sector |-> IF Len(root.children) > 0
                                          THEN [start |-> Rat(0, 1), end |-> Rat(2, 1)]
                                          ELSE NoSector])
    IN  IF Len(root.children) > 0
        THEN layout_children(positions, root, <<>>, center_x, center_y,
                             Rat(0, 1), Rat(2, 1), 1)
        ELSE positions

Max(a, b) == IF a >= b THEN a ELSE b
SetMax(S) == CHOOSE m \in S : \A k \in S : k <= m
SetMin(S) == CHOOSE m \in S : \A k \in S : m <= k

floor_unenforced(size, floor) == size

\* width = max(width, self.MIN_WIDTH)
ensure_minimum(size, floor) == Max(size, floor)

\* ImageMindMapGenerator._calculate_size; int() of a non-negative float.
calculate_size(positions) ==
    IF DOMAIN positions = {} THEN [width |-> MIN_WIDTH, height |-> MIN_HEIGHT]
    ELSE LET xs == { positions[k].x : k \in DOMAIN positions }
             ys == { positions[k].y : k \in DOMAIN positions }
             width == (SetMax(xs) - SetMin(xs) + PADDING * 2 * FP) \div FP
             height == (SetMax(ys) - SetMin(ys) + PADDING * 2 * FP) \div FP
         IN  [width |-> ensure_minimum(width, MIN_WIDTH),
              height |-> ensure_minimum(height, MIN_HEIGHT)]

\* ImageMindMapGenerator._draw_connections: one curved line per child, then
\* the lines below the child.
RECURSIVE draw_connections(_, _, _)
RECURSIVE ConnectionsFrom(_, _, _, _)
ConnectionsFrom(node, path, positions, i) ==
    IF i > Len(node.children) THEN <<>>
    ELSE (IF Append(path, i) \in DOMAIN positions
          THEN << [draw |-> "line", from |-> path, to |-> Append(path, i),
                   color |-> Get(node.children[i].colors, "branch", "#666666")] >>
               \o draw_connections(node.children[i], Append(path, i), positions)
          ELSE <<>>)
         \o ConnectionsFrom(node, path, positions, i + 1)
draw_connections(node, path, positions) ==
    IF path \notin DOMAIN positions THEN <<>>
    ELSE ConnectionsFrom(node, path, positions, 1)

\* ImageMindMapGenerator._draw_nodes: the node's box centred on its position,
\* then the boxes of its children.
RECURSIVE draw_nodes(_, _, _)
RECURSIVE NodesFrom(_, _, _, _)
NodesFrom(node, path, positions, i) ==
    IF i > Len(node.children) THEN <<>>
    ELSE draw_nodes(node.children[i], Append(path, i), positions)
         \o NodesFrom(node, path, positions, i + 1)
draw_nodes(node, path, positions) ==
    IF path \notin DOMAIN positions THEN <<>>
    ELSE << [draw |-> "box", node |-> path, x |-> positions[path].x,
             y |-> positions[path].y, text |-> node.name] >>
         \o NodesFrom(node, path, positions, 1)

canvas_nodes_first(connections, nodes, title) ==
    nodes \o connections \o << [draw |-> "title", text |-> title], [draw |-> "watermark"] >>

\* generate, lines 98-108: what is drawn on the canvas, in the order of the
\* calls: _draw_connections, _draw_nodes, _draw_title, _draw_watermark.
canvas(connections, nodes, title) ==
    connections \o nodes \o << [draw |-> "title", text |-> title], [draw |-> "watermark"] >>

\* ImageMindMapGenerator.generate: layout, size, then theme.background (an
\* AttributeError on None), the canvas and what is drawn on it, in order.
ImageMindMapGenerator_generate(root_node, title, theme) ==
    LET positions == calculate_layout(root_node)
        size == calculate_size(positions)
    IN  IF theme = NoTheme THEN Raised("AttributeError")
        ELSE Returned([width |-> size.width, height |-> size.height,
                       background |-> theme.background,
                       layout |-> positions,
                       drawn |-> canvas(draw_connections(root_node, <<>>, positions),
                                        draw_nodes(root_node, <<>>, positions), title)])

(***************************************************************************)
(* Plain-text outline serializer.  markdown_generator.py is imported by    *)
(* the facade but is not among the sources; it is modelled from the        *)
(* specification: a heading for the title, one bullet per node below the   *)
(* root nested by depth, a node's note as a sub-line; the theme is unused. *)
(***************************************************************************)
RECURSIVE MarkdownLines(_, _)
RECURSIVE MarkdownFrom(_, _, _)
MarkdownFrom(node, depth, i) ==
    IF i > Len(node.children) THEN <<>>
    ELSE MarkdownLines(node.children[i], depth) \o MarkdownFrom(node, depth, i + 1)
MarkdownLines(node, depth) ==
    << Indent(depth - 1) \o "- " \o node.name >>
    \o (IF Truthy(node.note) THEN << Indent(depth) \o node.note >> ELSE <<>>)
    \o MarkdownFrom(node, depth + 1, 1)

MarkdownGenerator_generate(root, title, theme) ==
    Returned(<< "# " \o title >> \o MarkdownFrom(root, 1, 1))

(***************************************************************************)
(* Generation facade (mindmap_service.py).                                 *)
(***************************************************************************)
\* The format values a caller may ask for: the two the facade documents, one
\* the bot's extension table also knows, and one nothing knows.
FormatChoices == {"markdown", "json", "excel", "bogus"}

\* The output kinds of the engine (generators/__init__.py, bot.py).
SupportedFormats == {"markdown", "json", "excel", "opml", "freemind", "image"}

\* MindMapService.generate_from_structure: the tree it builds, the serializers
\* it calls (in order) and what the call ends with.  Every format that is not
\* "markdown" takes the else branch.
generate_from_structure(rec, title, format) ==
    LET root_node == build_simple_node_tree(rec, 1, <<>>)
    IN  IF format = "markdown"
        THEN [root_node |-> root_node, invoked |-> << "markdown" >>,
              result |-> MarkdownGenerator_generate(root_node, title, NoTheme)]
        ELSE [root_node |-> root_node, invoked |-> << "json" >>,
              result |-> JSONMindMapGenerator_generate(root_node, title, NoTheme)]

(***************************************************************************)
(* Message handler (bot.py) and the AI-dispatch result it consumes         *)
(* (gemini_client.py).                                                     *)
(***************************************************************************)
\* GeminiClient.generate_mindmap's results: a function call with its
\* arguments, a text answer, an error, and no answer at all.
DispatchSuccess(rec, title, format) ==
    [success |-> TRUE, title |-> title, structure |-> rec, format |-> format]

DispatchFailures ==
    { [success |-> FALSE, text_response |-> "text"],
      [success |-> FALSE, error |-> "error"],
      [success |-> FALSE] }

format_extensions_json_first(format) ==
    CASE format = "markdown" -> ".json"
      [] format = "json" -> ".md"
      [] format = "excel" -> ".xlsx"
      [] OTHER -> ".json"

\* format_extensions.get(result["format"], ".md")
format_extensions(format) ==
    CASE format = "markdown" -> ".md"
      [] format = "json" -> ".json"
      [] format = "excel" -> ".xlsx"
      [] OTHER -> ".md"

\* The messages the handler sends and deletes, in order.  The try block ends
\* with its reply and then the deletion of the thinking message (lines
\* 84-104); the except block deletes it and then replies (lines 106-111).
Thinking == [call |-> "reply_text", text |-> "thinking"]
Delete == [call |-> "delete", message |-> "thinking"]
Send(reply) ==
    IF reply.kind = "document"
    THEN [call |-> "reply_document", document |-> reply.document,
          filename |-> reply.filename]
    ELSE [call |-> "reply_text", text |-> reply.text]

except_branch_without_delete(reply) == << Send(reply) >>

try_branch(reply) == << Send(reply), Delete >>
except_branch(reply) == << Delete, Send(reply) >>

\* handle_message: the tree the facade built (if it was called), the
\* serializers called, the reply sent to the user, and all the calls made on
\* the chat, the thinking message first.  An exception of the facade is
\* caught and answered with an error text.
handle_message(result) ==
    IF result.success
    THEN LET r == generate_from_structure(result.structure, result.title, result.format)
             reply == IF r.result.status = "raised"
                      THEN [kind |-> "text", text |-> "error: " \o r.result.error]
                      ELSE [kind |-> "document", document |-> r.result.value,
                            filename |-> result.title \o format_extensions(result.format)]
         IN  [root_node |-> r.root_node, invoked |-> r.invoked, reply |-> reply,
              calls |-> << Thinking >>
                        \o (IF r.result.status = "raised" THEN except_branch(reply)
                            ELSE try_branch(reply))]
    ELSE LET reply == [kind |-> "text",
                       text |-> IF "text_response" \in DOMAIN result
                                THEN result.text_response
                                ELSE "error: " \o Get(result, "error", "no mindmap")]
         IN  [root_node |-> [none |-> TRUE], invoked |-> <<>>, reply |-> reply,
              calls |-> << Thinking >> \o try_branch(reply)]

(***************************************************************************)
(* The state machine.                                                      *)
(***************************************************************************)
Idle == [op |-> "idle"]

\* No tree has been built for the request yet.
NoTree == [none |-> TRUE]

Init ==
    /\ structure \in RecordChoices
    /\ tree = NoTree
    /\ out = Idle
    /\ row_num = 1

\* The dispatch step extends the record it is about to hand over by one node.
AddRecord ==
    /\ tree = NoTree
    /\ out = Idle
    /\ Cardinality(RecordPaths(structure)) < MaxNodes
    /\ \E p \in RecordPaths(structure), rec \in RecordChoices :
          structure' = InsertAt(structure, p, rec)
    /\ UNCHANGED <<tree, out, row_num>>

\* MindMapService._build_simple_node_tree on the request's record.
BuildTree ==
    /\ tree = NoTree
    /\ out = Idle
    /\ tree' = build_simple_node_tree(structure, 1, <<>>)
    /\ UNCHANGED <<structure, out, row_num>>

\* A direct call of the generic-JSON serializer on the tree.
JsonGenerate ==
    /\ tree # NoTree
    /\ out = Idle
    /\ \E title \in Titles, theme \in ThemeChoices :
          out' = [op |-> "json", theme |-> theme,
                  result |-> JSONMindMapGenerator_generate(tree, title, theme)]
    /\ UNCHANGED <<structure, tree, row_num>>

\* The reader of a generic-JSON document: json.loads, then the tree builder on `root`.
Reconstruct ==
    /\ out.op = "json"
    /\ out.result.status = "ok"
    /\ out' = [op |-> "roundtrip",
               rebuilt |-> build_simple_node_tree(LoadsNode(out.result.value.v.root), 2, <<>>)]
    /\ UNCHANGED <<structure, tree, row_num>>

\* A call of the process-wide spreadsheet serializer; it may be called again
\* on the same instance.
ExcelGenerate ==
    /\ tree # NoTree
    /\ out.op = "idle" \/ (out.op = "excel" /\ out.calls < MaxCalls)
    /\ \E title \in Titles, theme \in ThemeChoices :
          LET r == ExcelGenerator_generate(row_num, tree, title, theme)
          IN  /\ out' = [op |-> "excel", result |-> r.result, before |-> row_num,
                         calls |-> IF out.op = "excel" THEN out.calls + 1 ELSE 1]
              /\ row_num' = r.row_num
    /\ UNCHANGED <<structure, tree>>

\* A direct call of the mind-map-editor XML serializer.
FreeMindGenerate ==
    /\ tree # NoTree
    /\ out = Idle
    /\ \E title \in Titles, theme \in ThemeChoices :
          out' = [op |-> "freemind", result |-> FreeMindGenerator_generate(tree, title, theme)]
    /\ UNCHANGED <<structure, tree, row_num>>

\* A direct call of the outline-processor XML serializer.
OPMLGenerate ==
    /\ tree # NoTree
    /\ out = Idle
    /\ \E title \in Titles, theme \in ThemeChoices :
          out' = [op |-> "opml", result |-> OPMLGenerator_generate(tree, title, theme)]
    /\ UNCHANGED <<structure, tree, row_num>>

\* A direct call of the image renderer.
ImageGenerate ==
    /\ tree # NoTree
    /\ out = Idle
    /\ \E title \in Titles, theme \in ThemeChoices :
          out' = [op |-> "image", theme |-> theme,
                  result |-> ImageMindMapGenerator_generate(tree, title, theme)]
    /\ UNCHANGED <<structure, tree, row_num>>

\* A request through the facade: it builds the tree and calls a serializer.
FacadeGenerate ==
    /\ tree = NoTree
    /\ out = Idle
    /\ \E title \in Titles, format \in FormatChoices :
          LET r == generate_from_structure(structure, title, format)
          IN  /\ tree' = r.root_node
              /\ out' = [op |-> "facade", format |-> format, invoked |-> r.invoked,
                         result |-> r.result]
    /\ UNCHANGED <<structure, row_num>>

\* One user message through the bot's handler.
HandleMessage ==
    /\ tree = NoTree
    /\ out = Idle
    /\ \E result \in { DispatchSuccess(structure, title, format) :
                          title \in Titles, format \in FormatChoices }
                      \cup DispatchFailures :
          LET h == handle_message(result)
          IN  /\ tree' = h.root_node
              /\ out' = [op |-> "handled", request |-> result, invoked |-> h.invoked,
                         reply |-> h.reply, calls |-> h.calls]
    /\ UNCHANGED <<structure, row_num>>

Next ==
    \/ AddRecord
    \/ HandleMessage
    \/ BuildTree
    \/ FacadeGenerate
    \/ ImageGenerate
    \/ JsonGenerate
    \/ Reconstruct
    \/ ExcelGenerate
    \/ FreeMindGenerate
    \/ OPMLGenerate

Spec == Init /\ [][Next]_vars

(***************************************************************************)
(* The size computation on its own: _calculate_size applied to position    *)
(* maps of up to MaxPoints entries, the empty map among them.              *)
(***************************************************************************)
\* Coordinates in 1/FP pixel: left of the canvas, on it, a fraction, far right.
Coordinates == {-480 * FP, 0, 600 * FP + 5000, 1500 * FP, 2500 * FP}

PositionMaps ==
    UNION { [1..k -> [x : Coordinates, y : Coordinates]] : k \in 0..MaxPoints }

InitSize ==
    /\ structure = [name |-> "A"]
    /\ tree = NoTree
    /\ row_num = 1
    /\ \E positions \in PositionMaps : out = [op |-> "positions", positions |-> positions]

CalculateSize ==
    /\ out.op = "positions"
    /\ out' = [op |-> "size", positions |-> out.positions,
               size |-> calculate_size(out.positions)]
    /\ UNCHANGED <<structure, tree, row_num>>

NextSize == CalculateSize

SpecSize == InitSize /\ [][NextSize]_vars

(***************************************************************************)
(* The serializers whose output depends on the shape of the tree (the      *)
(* spreadsheet's levels, the radial layout), on every tree shape of up to  *)
(* MaxShapeNodes nodes, all named alike.                                   *)
(***************************************************************************)
InitShape ==
    /\ structure = [name |-> "A"]
    /\ tree = NoTree
    /\ out = Idle
    /\ row_num = 1

\* The dispatch step extends the record by one more node named like the rest.
GrowRecord ==
    /\ tree = NoTree
    /\ out = Idle
    /\ Cardinality(RecordPaths(structure)) < MaxShapeNodes
    /\ \E p \in RecordPaths(structure) : structure' = InsertAt(structure, p, [name |-> "A"])
    /\ UNCHANGED <<tree, out, row_num>>

NextShape ==
    \/ GrowRecord
    \/ BuildTree
    \/ ExcelGenerate
    \/ ImageGenerate

SpecShape == InitShape /\ [][NextShape]_vars

(***************************************************************************)
(* Two invocations of ExcelGenerator.generate in flight on the module's    *)
(* one instance (excel_generator.py line 203), each on a tree and a         *)
(* worksheet of its own.  An invocation advances one node at a time; the   *)
(* recursion of _build_excel_tree is kept as the list of calls still to be *)
(* made.  self.row_num is the one counter both read and write.             *)
(***************************************************************************)
Invocations == {1, 2}

\* A chain of k nodes, the k-th a leaf: the records of the requests.
RECURSIVE Chain(_)
Chain(k) ==
    IF k <= 1 THEN [name |-> "B", note |-> "n"]
    ELSE [name |-> "A", children |-> << Chain(k - 1) >>]

ConcurrentTrees == { build_simple_node_tree(Chain(k), 1, <<>>) : k \in 1..MaxChain }

NotStarted == [pc |-> "start"]

InitConcurrent ==
    /\ structure = [name |-> "A"]
    /\ tree = NoTree
    /\ row_num = 1
    /\ out = [op |-> "concurrent", calls |-> [c \in Invocations |-> NotStarted]]

\* generate, lines 65-78: the workbook, the headers, and self.row_num = 2.
ExcelStart(c) ==
    /\ out.op = "concurrent"
    /\ out.calls[c].pc = "start"
    /\ \E root \in ConcurrentTrees, title \in Titles :
          out' = [out EXCEPT !.calls[c] =
                    [pc |-> "rows", root |-> root, title |-> title, ws |-> <<>>,
                     todo |-> << [node |-> <<>>, level |-> 0, path |-> root.name] >>]]
    /\ row_num' = row_counter_reset(row_num)
    /\ UNCHANGED <<structure, tree>>

\* One call of _build_excel_tree up to its loop: the node's row written at
\* self.row_num, the counter advanced, the calls for its children next.
ExcelWriteNode(c) ==
    /\ out.op = "concurrent"
    /\ out.calls[c].pc = "rows"
    /\ out.calls[c].todo # <<>>
    /\ LET call == out.calls[c]
           frame == Head(call.todo)
           node == NodeAt(call.root, frame.node)
           below == [i \in 1..Len(node.children) |->
                        [node |-> Append(frame.node, i), level |-> frame.level + 1,
                         path |-> child_path(frame.path, node.children[i].name)]]
       IN  out' = [out EXCEPT !.calls[c].ws =
                                 WriteRow(@, row_num, RowCells(node, frame.level, frame.path)),
                              !.calls[c].todo = below \o Tail(call.todo)]
    /\ row_num' = row_num + 1
    /\ UNCHANGED <<structure, tree>>

\* generate, lines 83-95: the workbook saved to the buffer and returned.
ExcelFinish(c) ==
    /\ out.op = "concurrent"
    /\ out.calls[c].pc = "rows"
    /\ out.calls[c].todo = <<>>
    /\ out' = [out EXCEPT !.calls[c] =
                  [pc |-> "done", root |-> out.calls[c].root, title |-> out.calls[c].title,
                   result |-> Returned(Workbook(out.calls[c].title, out.calls[c].ws))]]
    /\ UNCHANGED <<structure, tree, row_num>>

NextConcurrent ==
    \E c \in Invocations : ExcelStart(c) \/ ExcelWriteNode(c) \/ ExcelFinish(c)

SpecConcurrent == InitConcurrent /\ [][NextConcurrent]_vars

(***************************************************************************)
(* Font resolution of the image renderer (image_generator.py, _get_font).  *)
(* The renderer instance carries font_cache between requests; which of the *)
(* candidate files load is the file system's state at the request.         *)
(***************************************************************************)
FONT_PATHS ==
    << "f:/MILO_CHATBOT/app/data/fonts/DejaVuSans.ttf",
       "f:/MILO_CHATBOT/app/data/fonts/DejaVuSans-Bold.ttf",
       "C:/Windows/Fonts/arial.ttf",
       "C:/Windows/Fonts/segoeui.ttf",
       "/usr/share/fonts/truetype/dejavu/DejaVuSans.ttf" >>

\* The keys the renderer asks for: a node's text, the title, the watermark.
FontKeys == { <<14, FALSE>>, <<20, TRUE>>, <<12, FALSE>> }

\* ImageFont.load_default()
DefaultFontResource == [builtin |-> TRUE]

\* ImageFont.truetype(path, size) of a file that loads.
TrueType(path, size) == [path |-> path, size |-> size]

\* The loop over FONT_PATHS from index i on: the font it ends with (None if
\* no candidate loads) and the files it tried to load, in order.
RECURSIVE ProbeFrom(_, _, _)
ProbeFrom(i, size, available) ==
    IF i > Len(FONT_PATHS) THEN [font |-> [none |-> TRUE], loads |-> <<>>]
    ELSE IF FONT_PATHS[i] \in available
    THEN [font |-> TrueType(FONT_PATHS[i], size), loads |-> << FONT_PATHS[i] >>]
    ELSE LET rest == ProbeFrom(i + 1, size, available)
         IN  [font |-> rest.font, loads |-> << FONT_PATHS[i] >> \o rest.loads]

cached_never(font_cache, key) == FALSE

\* key in self.font_cache
cached(font_cache, key) == key \in DOMAIN font_cache

\* ImageMindMapGenerator._get_font: the cache after the call, the font
\* returned and the resource loads made.
get_font(font_cache, size, bold, available) ==
    LET key == <<size, bold>>
    IN  IF ~cached(font_cache, key)
        THEN LET probe == ProbeFrom(1, size, available)
                 font == IF probe.font = [none |-> TRUE] THEN DefaultFontResource
                         ELSE probe.font
             IN  [font_cache |-> (key :> font) @@ font_cache, font |-> font,
                  loads |-> probe.loads]
        ELSE [font_cache |-> font_cache, font |-> font_cache[key], loads |-> <<>>]

InitFont ==
    /\ structure = [name |-> "A"]
    /\ tree = NoTree
    /\ row_num = 1
    /\ out = [op |-> "fonts", requests |-> 0, font_cache |-> <<>>]

\* One request for a font, with the candidate files that load at that time.
GetFont ==
    /\ out.op = "fonts"
    /\ out.requests < MaxRequests
    /\ \E key \in FontKeys, available \in SUBSET { FONT_PATHS[i] : i \in 1..Len(FONT_PATHS) } :
          LET r == get_font(out.font_cache, key[1], key[2], available)
          IN  out' = [op |-> "fonts", requests |-> out.requests + 1,
                      font_cache |-> r.font_cache, before |-> out.font_cache,
                      key |-> key, available |-> available,
                      font |-> r.font, loads |-> r.loads]
    /\ UNCHANGED <<structure, tree, row_num>>

NextFont == GetFont

SpecFont == InitFont /\ [][NextFont]_vars

(***************************************************************************)
(* Reading the outputs back: the place of a node in each document.         *)
(***************************************************************************)
\* The paths of a tree's nodes in pre-order depth-first order.
RECURSIVE PreOrder(_, _)
RECURSIVE PreOrderFrom(_, _, _)
PreOrderFrom(node, path, i) ==
    IF i > Len(node.children) THEN <<>>
    ELSE PreOrder(node.children[i], Append(path, i)) \o PreOrderFrom(node, path, i + 1)
PreOrder(node, path) == <<path>> \o PreOrderFrom(node, path, 1)

\* The worksheet row of the node at a path: rows start below the header.
RowOf(root, path) ==
    1 + CHOOSE k \in 1..Len(PreOrder(root, <<>>)) : PreOrder(root, <<>>)[k] = path

\* The names on the route from the root to the node at a path, joined by " > ".
RECURSIVE RouteNames(_, _, _)
RouteNames(root, path, k) ==
    IF k = 0 THEN root.name
    ELSE RouteNames(root, path, k - 1) \o " > " \o NodeAt(root, Prefix(path, k)).name

\* The sub-elements of an element with a given tag.
ChildrenTagged(elem, tag) == SelectSeq(elem.children, LAMBDA e : e.tag = tag)

\* The element of the node at a path, below the element of the root.
RECURSIVE ElementAt(_, _, _)
ElementAt(elem, path, tag) ==
    IF path = <<>> THEN elem
    ELSE ElementAt(ChildrenTagged(elem, tag)[Head(path)], Tail(path), tag)

\* The root's node element of a FreeMind document and outline of an OPML document.
FreeMindRoot(doc) == ChildrenTagged(doc, "node")[1]
OPMLRoot(doc) == ChildrenTagged(ChildrenTagged(doc, "body")[1], "outline")[1]

\* The text of a rich-content note element.
RichText(rc) == rc.children[1].children[1].children[1].text

(***************************************************************************)
(* Claims.                                                                 *)
(***************************************************************************)
\* C1: the generic-JSON round trip (serialize, then rebuild a tree from the
\* document's `root` with the tree builder) gives back a tree with the same
\* name, note and children, in order, at every position.
C1_JsonRoundTrip ==
    out.op = "roundtrip" =>
        /\ NodePaths(out.rebuilt) = NodePaths(tree)
        /\ \A p \in NodePaths(tree) :
              /\ NodeAt(out.rebuilt, p).name = NodeAt(tree, p).name
              /\ NodeAt(out.rebuilt, p).note = NodeAt(tree, p).note

\* A round trip of a tree with two differently named children below one node,
\* a note that is None, a note that is empty and a note that is text; the
\* rebuilt nodes are new ones.
C1_Witness ==
    /\ out.op = "roundtrip"
    /\ \E p \in NodePaths(tree) :
          /\ Len(NodeAt(tree, p).children) >= 2
          /\ NodeAt(tree, p).children[1].name # NodeAt(tree, p).children[2].name
    /\ \E p, q, r \in NodePaths(out.rebuilt) :
          /\ NodeAt(out.rebuilt, p).note = None
          /\ NodeAt(out.rebuilt, q).note = "n"
          /\ NodeAt(out.rebuilt, r).note = ""
    /\ out.rebuilt.id # tree.id

\* C2: in the spreadsheet, the row of every node at depth d has Level = d and
\* a Path of the d+1 names on the route from the root to the node, in order,
\* joined by " > "; so a child's Level is its parent's Level + 1.
C2_ExcelLevelPath ==
    out.op = "excel" =>
        LET rows == out.result.value.rows
        IN  \A p \in NodePaths(tree) :
               /\ RowOf(tree, p) \in DOMAIN rows
               /\ rows[RowOf(tree, p)].Level = Len(p)
               /\ rows[RowOf(tree, p)].Path = RouteNames(tree, p, Len(p))
               /\ p # <<>> =>
                     rows[RowOf(tree, p)].Level =
                        rows[RowOf(tree, Prefix(p, Len(p) - 1))].Level + 1

\* A workbook with the row of a node at depth 2 whose Path is "A > B > A".
C2_Witness ==
    /\ out.op = "excel"
    /\ \E p \in NodePaths(tree) :
          /\ Len(p) = 2
          /\ out.result.value.rows[RowOf(tree, p)].Level = 2
          /\ out.result.value.rows[RowOf(tree, p)].Path = "A > B > A"

\* C3: in the mind-map-editor XML the root's child at index i has POSITION
\* "right" for even i and "left" for odd i, every deeper node has the POSITION
\* of the root's child it descends from, and the root has no POSITION.
C3_FreeMindPosition ==
    out.op = "freemind" =>
        LET rootElem == FreeMindRoot(out.result.value)
        IN  \A p \in NodePaths(tree) :
               LET e == ElementAt(rootElem, p, "node")
               IN  /\ e.attrib.TEXT = NodeAt(tree, p).name
                   /\ IF p = <<>> THEN "POSITION" \notin DOMAIN e.attrib
                      ELSE /\ "POSITION" \in DOMAIN e.attrib
                           /\ e.attrib.POSITION =
                                 (IF (p[1] - 1) % 2 = 0 THEN "right" ELSE "left")

\* A document in which the root's second child has a first child of its own:
\* index 0 among its siblings, and on the left.
C3_Witness ==
    /\ out.op = "freemind"
    /\ <<2, 1>> \in NodePaths(tree)
    /\ ElementAt(FreeMindRoot(out.result.value), <<1>>, "node").attrib.POSITION = "right"
    /\ ElementAt(FreeMindRoot(out.result.value), <<2>>, "node").attrib.POSITION = "left"
    /\ ElementAt(FreeMindRoot(out.result.value), <<2, 1>>, "node").attrib.POSITION = "left"

\* The canvas of a returned image and the layout it was drawn from.
ImageReturned == out.op = "image" /\ out.result.status = "ok"

\* C4: in the radial layout, when the n >= 1 children of a node are laid out
\* over the sector [start, end), the i-th child (0-indexed) gets the angle
\* start + (i + 0.5) * (end - start) / n; the angles increase strictly with i,
\* lie strictly between start and end, and for n = 1 the angle is the midpoint.
C4_SiblingAngles ==
    ImageReturned =>
        LET layout == out.result.value.layout
        IN  \A q \in NodePaths(tree) :
               LET n == Len(NodeAt(tree, q).children)
                   angle(i) == layout[Append(q, i + 1)].angle
               IN  n >= 1 =>
                     /\ layout[q].sector # NoSector
                     /\ \A i \in 0..(n - 1) :
                           LET start == layout[q].sector.start
                               end == layout[q].sector.end
                           IN  /\ angle(i) =
                                     RAdd(start, RDivInt(RMul(Rat(2 * i + 1, 2),
                                                              RSub(end, start)), n))
                               /\ RLess(start, angle(i))
                               /\ RLess(angle(i), end)
                               /\ i + 1 < n => RLess(angle(i), angle(i + 1))
                               /\ n = 1 => angle(i) = RDivInt(RAdd(start, end), 2)

\* A layout in which the root's only child has two children, at 7/8 pi and
\* 9/8 pi within the sector [3/4 pi, 5/4 pi) around their parent's angle pi.
C4_Witness ==
    /\ ImageReturned
    /\ <<1, 2>> \in NodePaths(tree)
    /\ out.result.value.layout[<<1>>].angle = Rat(1, 1)
    /\ out.result.value.layout[<<1>>].sector = [start |-> Rat(3, 4), end |-> Rat(5, 4)]
    /\ out.result.value.layout[<<1, 1>>].angle = Rat(7, 8)
    /\ out.result.value.layout[<<1, 2>>].angle = Rat(9, 8)

\* C5: for any position map, the empty one included, the size computation
\* returns a width of at least MIN_WIDTH and a height of at least MIN_HEIGHT.
C5_MinimumSize ==
    out.op = "size" => out.size.width >= 1200 /\ out.size.height >= 800

\* The size computed for the empty position map: the floor itself.
C5_Witness ==
    /\ out.op = "size"
    /\ out.positions = <<>>
    /\ out.size = [width |-> 1200, height |-> 800]

\* C6: every position at which the renderer draws a node lies on the canvas
\* of the computed size, at least PADDING away from each of its four edges.
C6_PaddingRespected ==
    ImageReturned =>
        \A k \in 1..Len(out.result.value.drawn) :
            LET d == out.result.value.drawn[k]
            IN  d.draw = "box" =>
                  /\ PADDING * FP <= d.x
                  /\ d.x <= (out.result.value.width - PADDING) * FP
                  /\ PADDING * FP <= d.y
                  /\ d.y <= (out.result.value.height - PADDING) * FP

\* C7: a node whose note is absent has no richcontent element in the
\* mind-map-editor XML, no `_note` attribute in the outline-processor XML and
\* an empty Note cell in the spreadsheet; a node with a non-empty note has the
\* element, attribute or cell, carrying the note's text.
C7_NoteEmission ==
    \A p \in (IF tree = NoTree THEN {} ELSE NodePaths(tree)) :
        LET note == NodeAt(tree, p).note
        IN  /\ out.op = "freemind" =>
                 LET rc == ChildrenTagged(ElementAt(FreeMindRoot(out.result.value), p, "node"),
                                          "richcontent")
                 IN  /\ note = None => rc = <<>>
                     /\ Truthy(note) => Len(rc) = 1 /\ RichText(rc[1]) = note
            /\ out.op = "opml" =>
                 LET a == ElementAt(OPMLRoot(out.result.value), p, "outline").attrib
                 IN  /\ note = None => "_note" \notin DOMAIN a
                     /\ Truthy(note) => "_note" \in DOMAIN a /\ a._note = note
            /\ out.op = "excel" =>
                 LET cell == out.result.value.rows[RowOf(tree, p)].Note
                 IN  /\ note = None => cell = ""
                     /\ Truthy(note) => cell = note

\* A mind-map-editor document of a tree with a node without a note, which has
\* no richcontent element, and a node with the note "n", which has one.
C7_Witness ==
    /\ out.op = "freemind"
    /\ \E p, q \in NodePaths(tree) :
          /\ NodeAt(tree, p).note = None
          /\ ChildrenTagged(ElementAt(FreeMindRoot(out.result.value), p, "node"),
                            "richcontent") = <<>>
          /\ NodeAt(tree, q).note = "n"
          /\ Len(ChildrenTagged(ElementAt(FreeMindRoot(out.result.value), q, "node"),
                                "richcontent")) = 1

\* C8: asked for a format that is not a supported output kind, the facade
\* ends with a rejection and calls no serializer.
C8_UnknownFormatRejected ==
    (out.op = "facade" /\ out.format \notin SupportedFormats) =>
        /\ out.result.status = "raised"
        /\ out.invoked = <<>>

\* C9: there is a maximum node count such that an input record exceeding it
\* is rejected before a tree, a layout or a buffer is produced.
C9_SizeGuard ==
    \E guard \in 1..(MaxNodes - 1) :
        Cardinality(RecordPaths(structure)) > guard =>
            /\ tree = NoTree
            /\ out.op \in {"facade", "image"} => out.result.status = "raised"

\* C10: tree building completes on a record in which any nodes lack `name`:
\* such a node is labelled "", every other node keeps its name, every node
\* its note and its children, and a record without `children` is a leaf.
C10_MissingNameRecovered ==
    tree # NoTree =>
        /\ NodePaths(tree) = RecordPaths(structure)
        /\ \A p \in RecordPaths(structure) :
              LET rec == RecordAt(structure, p)
                  node == NodeAt(tree, p)
              IN  /\ node.name = (IF "name" \in DOMAIN rec THEN rec.name ELSE "")
                  /\ node.note = (IF "note" \in DOMAIN rec THEN rec.note ELSE None)
                  /\ "children" \notin DOMAIN rec => node.children = <<>>
                  /\ "children" \in DOMAIN rec => Len(node.children) = Len(rec.children)

\* A tree built from a record whose root and whose second child lack `name`,
\* while the first child is named "B": the labels are "", "B" and "".
C10_Witness ==
    /\ tree # NoTree
    /\ "name" \notin DOMAIN structure
    /\ <<2>> \in RecordPaths(structure)
    /\ "name" \notin DOMAIN RecordAt(structure, <<2>>)
    /\ "children" \notin DOMAIN RecordAt(structure, <<2>>)
    /\ tree.name = ""
    /\ tree.children[1].name = "B"
    /\ tree.children[2].name = ""
    /\ tree.children[2].children = <<>>

\* C11: called with the theme absent, the generic-JSON serializer returns a
\* document holding the tree under `root`, and the image renderer returns an
\* image; neither raises.
C11_ThemeOptional ==
    /\ (out.op = "json" /\ out.theme = NoTheme) =>
          /\ out.result.status = "ok"
          /\ out.result.value.v.root = DumpsNode(to_dict(tree))
    /\ (out.op = "image" /\ out.theme = NoTheme) => out.result.status = "ok"

\* The canonical file extension of each serializer the facade holds.
CanonicalExtension(serializer) ==
    CASE serializer = "markdown" -> ".md"
      [] serializer = "json" -> ".json"
      [] serializer = "excel" -> ".xlsx"

\* What a serializer the facade holds returns for a tree and a title.
SerializerOutput(serializer, root, title) ==
    IF serializer = "markdown" THEN MarkdownGenerator_generate(root, title, NoTheme)
    ELSE JSONMindMapGenerator_generate(root, title, NoTheme)

C13_InterleavingIndependent ==
    out.op = "concurrent" =>
        \A c \in Invocations :
            out.calls[c].pc = "done" =>
                out.calls[c].result =
                    ExcelGenerator_generate(1, out.calls[c].root, out.calls[c].title,
                                            NoTheme).result

\* C14: the built tree has one node per record of the input and no other:
\* the same shape, each node with the name and note of its record, each
\* node's children in the order of the record's `children` list, and no node
\* standing for two records.
C14_OneNodePerRecord ==
    tree # NoTree =>
        /\ NodePaths(tree) = RecordPaths(structure)
        /\ Cardinality({ NodeAt(tree, p).id : p \in NodePaths(tree) })
              = Cardinality(RecordPaths(structure))
        /\ \A p \in RecordPaths(structure) :
              LET rec == RecordAt(structure, p)
                  node == NodeAt(tree, p)
                  children_data == Get(rec, "children", <<>>)
              IN  /\ node.name = Get(rec, "name", "")
                  /\ node.note = Get(rec, "note", None)
                  /\ Len(node.children) = Len(children_data)
                  /\ \A i \in 1..Len(children_data) :
                        /\ node.children[i].name = Get(children_data[i], "name", "")
                        /\ node.children[i].note = Get(children_data[i], "note", None)

\* A tree built from a record whose root has the children "A" and then "B",
\* the second with a child of its own: the nodes stand in the same places.
C14_Witness ==
    /\ tree # NoTree
    /\ Len(Get(structure, "children", <<>>)) = 2
    /\ structure.children[1] = [name |-> "A"]
    /\ Get(structure.children[2], "name", "") = "B"
    /\ <<2, 1>> \in RecordPaths(structure)
    /\ tree.children[1].name = "A"
    /\ tree.children[1].children = <<>>
    /\ tree.children[2].name = "B"
    /\ Len(tree.children[2].children) = 1

\* C15: in the spreadsheet, the Level cell of every row at level L is filled
\* with the palette color of min(L, 4): a row deeper than level 4 has the
\* color of level 4.
C15_PaletteClamped ==
    out.op = "excel" =>
        \A r \in DOMAIN out.result.value.rows :
            LET L == out.result.value.rows[r].Level
            IN  out.result.value.rows[r].fill = LEVEL_COLORS(IF L < 4 THEN L ELSE 4)

\* Pre-order of two index paths: an ancestor before its descendants, and
\* otherwise the subtree of the earlier sibling first.
RECURSIVE PathBefore(_, _)
PathBefore(p, q) ==
    IF p = <<>> THEN q # <<>>
    ELSE IF q = <<>> THEN FALSE
    ELSE IF Head(p) # Head(q) THEN Head(p) < Head(q)
    ELSE PathBefore(Tail(p), Tail(q))

\* C16: one spreadsheet call on a tree of N nodes writes exactly the rows
\* 2..N+1, one per node, in pre-order depth-first order (a node before its
\* descendants, sibling subtrees in child order), and leaves the counter at
\* N+2; this holds for every call on the instance, whatever the counter was
\* before the call.
C16_RowsInPreOrder ==
    out.op = "excel" =>
        LET rows == out.result.value.rows
            N == Cardinality(NodePaths(tree))
        IN  /\ DOMAIN rows = 2..(N + 1)
            /\ row_num = N + 2
            /\ \A p \in NodePaths(tree) :
                  LET before == { q \in NodePaths(tree) : PathBefore(q, p) }
                  IN  rows[2 + Cardinality(before)] =
                          RowCells(NodeAt(tree, p), Len(p), RouteNames(tree, p, Len(p)))

\* The second call in a row on the instance, whose counter the first call
\* left at 6, for a tree of four nodes with a grandchild below the first
\* child: the grandchild's row 4 comes before the second child's row 5.
C16_Witness ==
    /\ out.op = "excel"
    /\ out.calls = 2
    /\ out.before = 6
    /\ NodePaths(tree) = { <<>>, <<1>>, <<1, 1>>, <<2>> }
    /\ tree.children[1].name # tree.children[2].name
    /\ out.result.value.rows[4].Level = 2
    /\ out.result.value.rows[5].Level = 1
    /\ out.result.value.rows[5].NodeName = "  " \o tree.children[2].name

\* a <= b for rationals.
RLeq(a, b) == ~RLess(b, a)

\* The slice of its parent's sector that the layout gives the node at a
\* non-root path: the parent's sector cut into as many equal parts as the
\* parent has children.
SliceOf(layout, root, p) ==
    LET parent == Prefix(p, Len(p) - 1)
        sector == layout[parent].sector
        angle_step == RDivInt(RSub(sector.end, sector.start),
                              Len(NodeAt(root, parent).children))
    IN  [start |-> RAdd(sector.start, RMul(angle_step, Rat(p[Len(p)] - 1, 1))),
         end |-> RAdd(sector.start, RMul(angle_step, Rat(p[Len(p)], 1))),
         angle_step |-> angle_step]

\* C17: in the radial layout every non-root node with children has a sector
\* of width min(0.8 * angle_step, pi/2) centred on its own angle, angle_step
\* being the width of its slice of its parent's sector; the sector is
\* strictly narrower than the parent's, lies inside the node's slice, and
\* does not overlap the sector of any sibling.
C17_SectorNarrowing ==
    ImageReturned =>
        LET layout == out.result.value.layout
            inner == { p \in NodePaths(tree) : p # <<>> /\ Len(NodeAt(tree, p).children) > 0 }
        IN  \A p \in inner :
               LET mine == layout[p].sector
                   slice == SliceOf(layout, tree, p)
                   above == layout[Prefix(p, Len(p) - 1)].sector
               IN  /\ RSub(mine.end, mine.start)
                         = RMin(RMul(slice.angle_step, Rat(4, 5)), Rat(1, 2))
                   /\ RDivInt(RAdd(mine.start, mine.end), 2) = layout[p].angle
                   /\ RLess(RSub(mine.end, mine.start), RSub(above.end, above.start))
                   /\ RLeq(slice.start, mine.start)
                   /\ RLeq(mine.end, slice.end)
                   /\ \A q \in inner :
                         (q # p /\ Len(q) = Len(p)
                                /\ Prefix(q, Len(q) - 1) = Prefix(p, Len(p) - 1)) =>
                             \/ RLeq(mine.end, layout[q].sector.start)
                             \/ RLeq(layout[q].sector.end, mine.start)

\* A layout of a root with two children, each with a child of its own, the
\* first with a grandchild: the sectors of the children are 1/2 pi wide (the
\* cap) around pi/2 and 3 pi/2, and the sector of the first child's child is
\* 0.8 * 1/2 pi wide around pi/2.
C17_Witness ==
    /\ ImageReturned
    /\ { <<1, 1, 1>>, <<2, 1>> } \subseteq NodePaths(tree)
    /\ Len(tree.children) = 2
    /\ out.result.value.layout[<<1>>].sector = [start |-> Rat(1, 4), end |-> Rat(3, 4)]
    /\ out.result.value.layout[<<2>>].sector = [start |-> Rat(5, 4), end |-> Rat(7, 4)]
    /\ out.result.value.layout[<<1, 1>>].sector = [start |-> Rat(3, 10), end |-> Rat(7, 10)]

\* A length in 1/FP pixel, in tenths of a pixel.
Tenths(v) == v \div (FP \div 10)

\* C18: the layout puts the root at (MIN_WIDTH/2, MIN_HEIGHT/2) for every
\* tree, and every node at depth L >= 1 at its parent's position displaced by
\* LEVEL_SPACING * L along its angle: the distance to the parent is
\* LEVEL_SPACING * L (to within 0.2 pixel of rounding), whatever the number of
\* siblings and the size of the subtree.
C18_RadiusByDepth ==
    ImageReturned =>
        LET layout == out.result.value.layout
        IN  /\ layout[<<>>].x = 600 * FP
            /\ layout[<<>>].y = 400 * FP
            /\ \A p \in NodePaths(tree) \ {<<>>} :
                  LET above == layout[Prefix(p, Len(p) - 1)]
                      dx == layout[p].x - above.x
                      dy == layout[p].y - above.y
                      r == 180 * Len(p)
                      d2 == Tenths(dx) * Tenths(dx) + Tenths(dy) * Tenths(dy)
                  IN  /\ dx = r * Cos(layout[p].angle)
                      /\ dy = r * Sin(layout[p].angle)
                      /\ (10 * r - 2) * (10 * r - 2) <= d2
                      /\ d2 <= (10 * r + 2) * (10 * r + 2)

\* A layout of a root with two children, at pi/2 and 3 pi/2, the first with
\* a child: the children are 180 below and above the root at (600, 400), and
\* the grandchild is 360 below its parent, at (600, 940).
C18_Witness ==
    /\ ImageReturned
    /\ NodePaths(tree) = { <<>>, <<1>>, <<2>>, <<1, 1>> }
    /\ out.result.value.layout[<<1>>].y = 580 * FP
    /\ out.result.value.layout[<<2>>].y = 220 * FP
    /\ out.result.value.layout[<<1, 1>>].x = 600 * FP
    /\ out.result.value.layout[<<1, 1>>].y = 940 * FP

\* C19: for every tree the layout computation ends with a position map that
\* has an entry for each node of the tree and no other entry, each assigned
\* exactly once; a node without children starts no layout of children (it
\* hands on no sector), a node with children does.
C19_OneEntryPerNode ==
    ImageReturned =>
        LET layout == out.result.value.layout
        IN  /\ DOMAIN layout = NodePaths(tree)
            /\ \A p \in NodePaths(tree) :
                  /\ layout[p].writes = 1
                  /\ layout[p].level = Len(p)
                  /\ (layout[p].sector = NoSector) <=> (NodeAt(tree, p).children = <<>>)

\* The layout of a tree of six nodes, three of them leaves at different
\* depths: six entries.
C19_Witness ==
    /\ ImageReturned
    /\ NodePaths(tree) = { <<>>, <<1>>, <<2>>, <<2, 1>>, <<2, 2>>, <<2, 2, 1>> }
    /\ Cardinality(DOMAIN out.result.value.layout) = 6
    /\ out.result.value.layout[<<1>>].sector = NoSector
    /\ out.result.value.layout[<<2, 2>>].sector # NoSector
    /\ out.result.value.layout[<<2, 2, 1>>].writes = 1

\* The places in the drawing sequence of the operations of one kind.
Drawn(drawn, kind) == { i \in 1..Len(drawn) : drawn[i].draw = kind }

\* C20: in one image generation every connector is drawn before every node
\* box, the box of a parent before the box of its child, the title after all
\* boxes and the watermark last; each parent-child pair has exactly one
\* connector and each node exactly one box.
C20_DrawingOrder ==
    ImageReturned =>
        LET drawn == out.result.value.drawn
            lines == Drawn(drawn, "line")
            boxes == Drawn(drawn, "box")
            N == Cardinality(NodePaths(tree))
        IN  /\ \A i \in lines, j \in boxes : i < j
            /\ \A i, j \in boxes :
                  (drawn[j].node # <<>>
                     /\ drawn[i].node = Prefix(drawn[j].node, Len(drawn[j].node) - 1)) => i < j
            /\ Len(drawn) = (N - 1) + N + 2
            /\ Drawn(drawn, "title") = { Len(drawn) - 1 }
            /\ Drawn(drawn, "watermark") = { Len(drawn) }
            /\ \A p \in NodePaths(tree) :
                  /\ Cardinality({ i \in boxes : drawn[i].node = p }) = 1
                  /\ p # <<>> =>
                        Cardinality({ i \in lines :
                                        /\ drawn[i].to = p
                                        /\ drawn[i].from = Prefix(p, Len(p) - 1) }) = 1
            /\ \A i \in lines : drawn[i].from = Prefix(drawn[i].to, Len(drawn[i].to) - 1)

\* The drawing of a tree of four nodes with a grandchild: three connectors,
\* then four boxes beginning with the root's, then the title and the watermark.
C20_Witness ==
    /\ ImageReturned
    /\ NodePaths(tree) = { <<>>, <<1>>, <<1, 1>>, <<2>> }
    /\ Len(out.result.value.drawn) = 9
    /\ out.result.value.drawn[3].draw = "line"
    /\ out.result.value.drawn[4].draw = "box"
    /\ out.result.value.drawn[4].node = <<>>
    /\ out.result.value.drawn[8].draw = "title"
    /\ out.result.value.drawn[9].draw = "watermark"

\* C21: on one renderer instance, the first request for a (size, bold) key
\* tries the candidate files in list order up to the first that loads and
\* returns that font, or the built-in font when none loads; every later
\* request for the key returns the font resolved then, with no load and the
\* cache unchanged; every request returns a font.
C21_FontCache ==
    (out.op = "fonts" /\ out.requests > 0) =>
        LET loading == { i \in 1..Len(FONT_PATHS) : FONT_PATHS[i] \in out.available }
        IN  /\ out.key \in DOMAIN out.before =>
                  /\ out.loads = <<>>
                  /\ out.font = out.before[out.key]
                  /\ out.font_cache = out.before
            /\ out.key \notin DOMAIN out.before =>
                  /\ loading = {} =>
                        /\ out.loads = FONT_PATHS
                        /\ out.font = DefaultFontResource
                  /\ loading # {} =>
                        LET k == CHOOSE i \in loading : \A j \in loading : i <= j
                        IN  /\ out.loads = SubSeq(FONT_PATHS, 1, k)
                            /\ out.font = TrueType(FONT_PATHS[k], out.key[1])
                  /\ DOMAIN out.font_cache = DOMAIN out.before \cup {out.key}
                  /\ \A other \in DOMAIN out.before :
                        out.font_cache[other] = out.before[other]
            /\ out.font_cache[out.key] = out.font
            /\ out.font # [none |-> TRUE]

\* The second request for the title's key, at a time when the first
\* candidate loads, after a first request at which only the third and the
\* fifth did: no load, and the third candidate's font again.
C21_Witness ==
    /\ out.op = "fonts"
    /\ out.requests = 2
    /\ out.key = <<20, TRUE>>
    /\ out.key \in DOMAIN out.before
    /\ FONT_PATHS[1] \in out.available
    /\ out.loads = <<>>
    /\ out.font = TrueType("C:/Windows/Fonts/arial.ttf", 20)

\* The edge elements directly inside the node element of the node at a path.
EdgesAt(doc, p) == ChildrenTagged(ElementAt(FreeMindRoot(doc), p, "node"), "edge")

\* C22: in the mind-map-editor XML every node element has exactly one edge
\* element, whose COLOR is the node's branch color; the edge elements of the
\* root's direct children carry the extra WIDTH attribute, and no edge
\* element of a node at depth 2 or deeper carries it.
C22_EdgeWidth ==
    out.op = "freemind" =>
        \A p \in NodePaths(tree) :
            LET edges == EdgesAt(out.result.value, p)
            IN  /\ Len(edges) = 1
                /\ edges[1].attrib.COLOR = Get(NodeAt(tree, p).colors, "branch", "#1f77b4")
                /\ Len(p) = 1 => "WIDTH" \in DOMAIN edges[1].attrib
                /\ Len(p) >= 2 => "WIDTH" \notin DOMAIN edges[1].attrib

\* The index paths of the elements nested in an element, by position among
\* all of its sub-elements.
RECURSIVE ElementPaths(_)
ElementPaths(elem) ==
    {<<>>} \cup UNION { { <<i>> \o p : p \in ElementPaths(elem.children[i]) } :
                        i \in 1..Len(elem.children) }

\* The element at such a path.
RECURSIVE SubElementAt(_, _)
SubElementAt(elem, path) ==
    IF path = <<>> THEN elem ELSE SubElementAt(elem.children[Head(path)], Tail(path))

\* C23: the body of the outline-processor XML mirrors the tree: its only
\* direct child is the root's outline; below it there is exactly one outline
\* element per node and nothing else, the outline of a node being the i-th
\* sub-element of its parent's outline when the node is the i-th child; and
\* each outline's `text` is the node's name.
C23_OutlineMirrorsTree ==
    out.op = "opml" =>
        LET body == ChildrenTagged(out.result.value, "body")
        IN  /\ Len(body) = 1
            /\ Len(body[1].children) = 1
            /\ ElementPaths(body[1].children[1]) = NodePaths(tree)
            /\ \A p \in NodePaths(tree) :
                  LET outline == SubElementAt(body[1].children[1], p)
                  IN  /\ outline.tag = "outline"
                      /\ outline.attrib.text = NodeAt(tree, p).name
                      /\ Len(outline.children) = Len(NodeAt(tree, p).children)

\* A document of a tree whose root has the children "A" and then "B", the
\* first with a child: four outlines, nested and ordered as the nodes are.
C23_Witness ==
    /\ out.op = "opml"
    /\ NodePaths(tree) = { <<>>, <<1>>, <<1, 1>>, <<2>> }
    /\ tree.children[1].name = "A"
    /\ tree.children[2].name = "B"
    /\ Cardinality(ElementPaths(OPMLRoot(out.result.value))) = 4
    /\ SubElementAt(OPMLRoot(out.result.value), <<1>>).attrib.text = "A"
    /\ SubElementAt(OPMLRoot(out.result.value), <<2>>).attrib.text = "B"
    /\ Len(SubElementAt(OPMLRoot(out.result.value), <<1>>).children) = 1

\* C24: for every message, whichever way the dispatch and the generation end
\* (a file, a text answer, a reported error, an exception of the
\* serialization), the handler sends, after the thinking message, exactly one
\* final response and deletes the thinking message exactly once; it sends a
\* document only when the dispatch result reports success.
C24_OneResponseOneDelete ==
    out.op = "handled" =>
        LET after == Tail(out.calls)
            responses == { i \in 1..Len(after) :
                             after[i].call \in {"reply_document", "reply_text"} }
            deletions == { i \in 1..Len(after) : after[i].call = "delete" }
        IN  /\ Head(out.calls) = Thinking
            /\ Cardinality(responses) = 1
            /\ Cardinality(deletions) = 1
            /\ Len(after) = 2
            /\ \A i \in responses :
                  /\ after[i] = Send(out.reply)
                  /\ after[i].call = "reply_document" => out.request.success

\* A message whose dispatch succeeded and whose serialization raised: the
\* thinking message, its deletion, and then the one error reply.
C24_Witness ==
    /\ out.op = "handled"
    /\ out.request.success
    /\ out.invoked = << "json" >>
    /\ out.calls = << Thinking, Delete,
                      [call |-> "reply_text", text |-> "error: AttributeError"] >>
====
